---- MODULE Spec2Model ----
(***************************************************************************)
(* Model of the Gemini gateway (src/api/index.ts): the round-robin key     *)
(* pool (apiKeys / currentKeyIndex / getModel), the session factory        *)
(* (createChatSession), the response formatter (formatResponse) and the    *)
(* GET / handler with its retry loop.  Strings are sequences of            *)
(* one-character strings.  Every request is an async task; the handler's   *)
(* code between two awaits runs as one atomic step of the event loop.      *)
(***************************************************************************)
EXTENDS Integers, Sequences, FiniteSets, TLC

(* ---------------------------- bounds ----------------------------------- *)
\* largest number of keys configured in the environment
MaxPool == 2
\* number of requests the clients issue
NumRequests == 2

\* longest reply text of the exhaustive enumeration
MaxTextLen == 7

Requests == 1 .. NumRequests

(* ------------------------- string helpers ------------------------------ *)
\* the backquote character U+0060, written by name (a string literal cannot hold it)
Backtick == "BQ"
Fence == <<Backtick, Backtick, Backtick>>

\* JavaScript white space met in the modelled strings (String.prototype.trim)
IsSpace(c) == c \in {" ", "\n", "\t"}

\* \w of the regular expression: [A-Za-z0-9_]
IsWord(c) ==
    c \in {"a", "b", "c", "d", "e", "h", "i", "j", "k", "l", "m", "o", "q", "r",
           "s", "t", "u", "v", "x", "O", "Q", "U", "A", "T",
           "0", "1", "2", "3", "4", "5", "9", "_"}

\* String.prototype.toLowerCase, character by character
LowerChar(c) ==
    CASE c = "Q" -> "q"
      [] c = "U" -> "u"
      [] c = "O" -> "o"
      [] c = "T" -> "t"
      [] c = "A" -> "a"
      [] OTHER -> c

toLowerCase(s) == [i \in 1 .. Len(s) |-> LowerChar(s[i])]

\* s.slice(from - 1, to) with 1-based inclusive positions
Slice(s, from, to) == IF from > to THEN <<>> ELSE SubSeq(s, from, to)

\* does needle occur in s at position i
OccursAt(s, needle, i) ==
    /\ i >= 1
    /\ i + Len(needle) - 1 <= Len(s)
    /\ \A k \in 1 .. Len(needle) : s[i + k - 1] = needle[k]

\* String.prototype.includes
includes(s, needle) == \E i \in 1 .. Len(s) + 1 : OccursAt(s, needle, i)

\* String.prototype.indexOf(needle, from), 1-based; 0 when there is none
IndexFrom(s, needle, from) ==
    LET hits == {i \in from .. Len(s) + 1 : OccursAt(s, needle, i)}
    IN  IF hits = {} THEN 0 ELSE CHOOSE i \in hits : \A j \in hits : i <= j

\* variant: at most one white-space character is removed at each end
trim_OneEach(s) ==
    LET lo == IF s # <<>> /\ IsSpace(s[1]) THEN 2 ELSE 1
        hi == IF Len(s) >= lo /\ IsSpace(s[Len(s)]) THEN Len(s) - 1 ELSE Len(s)
    IN  Slice(s, lo, hi)

\* String.prototype.trim
trim(s) ==
    LET keep == {i \in 1 .. Len(s) : ~IsSpace(s[i])}
    IN  IF keep = {} THEN <<>>
        ELSE LET lo == CHOOSE i \in keep : \A j \in keep : i <= j
                 hi == CHOOSE i \in keep : \A j \in keep : i >= j
             IN  SubSeq(s, lo, hi)

\* String.prototype.split(sep) for a one-character separator
RECURSIVE split(_, _)
split(s, sep) ==
    LET at == IndexFrom(s, <<sep>>, 1)
    IN  IF at = 0 THEN <<s>>
        ELSE <<Slice(s, 1, at - 1)>> \o split(Slice(s, at + 1, Len(s)), sep)

\* Array.prototype.filter(k => k) on strings: drops the empty ones
RECURSIVE filterTruthy(_)
filterTruthy(list) ==
    IF list = <<>> THEN <<>>
    ELSE IF Head(list) = <<>> THEN filterTruthy(Tail(list))
         ELSE <<Head(list)>> \o filterTruthy(Tail(list))

(* ------------------------- key management ------------------------------ *)
KeyChars == <<"a", "b", "c", "d", "e">>

\* a value of GEMINI_API_KEYS naming n keys: "a,b", or " a , b ,," when padded
RECURSIVE EnvValue(_, _)
EnvValue(n, padded) ==
    IF n = 0 THEN (IF padded THEN <<" ", ",">> ELSE <<>>)
    ELSE (IF n = 1 THEN <<>> ELSE EnvValue(n - 1, FALSE) \o <<",">>)
         \o (IF padded THEN <<" ", KeyChars[n], "1", " ", ",", ",">>
             ELSE <<KeyChars[n], "1">>)

EnvChoices == {EnvValue(n, p) : n \in 0 .. MaxPool, p \in BOOLEAN}

\* envKeys.split(',').map(k => k.trim()).filter(k => k)
ParseKeys(envKeys) ==
    LET parts == split(envKeys, ",")
    IN  filterTruthy([i \in 1 .. Len(parts) |-> trim(parts[i])])

(* ------------------------- formatResponse ------------------------------ *)
\* first position at or after p that is not a word character ([\w]* taken greedily)
RECURSIVE SkipWord(_, _)
SkipWord(s, p) == IF p <= Len(s) /\ IsWord(s[p]) THEN SkipWord(s, p + 1) ELSE p

\* The ways /```[\w]*\n?/ can match at an opening fence at i: the tag takes t
\* word characters and the newline is taken (nl = 1) or not; each gives the
\* position p where the captured group starts.
GroupStarts(s, i) ==
    LET tagEnd == SkipWord(s, i + 3)
    IN  {[t |-> t, nl |-> nl, p |-> i + 3 + t + nl] :
            t \in 0 .. (tagEnd - (i + 3)), nl \in {0, 1}}

\* rawText.match(/```[\w]*\n?([\s\S]*?)```/) tried at start i: of the ways that
\* find a closing fence, the backtracking engine takes the one with the longest
\* tag, then with the newline taken; the lazy group ends at the first fence.
MatchAt(s, i) ==
    LET ok == {g \in GroupStarts(s, i) :
                  /\ OccursAt(s, Fence, i)
                  /\ (g.nl = 1 => (g.p - 1 <= Len(s) /\ s[g.p - 1] = "\n"))
                  /\ IndexFrom(s, Fence, g.p) # 0}
    IN  IF ok = {} THEN [found |-> FALSE, group |-> <<>>]
        ELSE LET g == CHOOSE x \in ok :
                          \A y \in ok : 2 * y.t + y.nl <= 2 * x.t + x.nl
             IN  [found |-> TRUE,
                  group |-> Slice(s, g.p, IndexFrom(s, Fence, g.p) - 1)]

\* the leftmost start at which the regular expression matches
RegexMatch(s) ==
    LET starts == {i \in 1 .. Len(s) : MatchAt(s, i).found}
    IN  IF starts = {} THEN [found |-> FALSE, group |-> <<>>]
        ELSE MatchAt(s, CHOOSE i \in starts : \A j \in starts : i <= j)

\* rawText.replace(/```/g, '')
RECURSIVE StripFences(_)
StripFences(s) ==
    LET at == IndexFrom(s, Fence, 1)
    IN  IF at = 0 THEN s
        ELSE Slice(s, 1, at - 1) \o StripFences(Slice(s, at + 3, Len(s)))

\* variant: the fallback trims and leaves the fences in
formatResponse_NoStrip(rawText) ==
    LET match == RegexMatch(rawText)
    IN  IF match.found /\ match.group # <<>>
        THEN [code |-> trim(match.group)]
        ELSE [code |-> trim(rawText)]

\* variant: the raw text is wrapped as it came
formatResponse_Raw(rawText) == [code |-> rawText]

formatResponse(rawText) ==
    LET match == RegexMatch(rawText)
    IN  IF match.found /\ match.group # <<>>
        THEN [code |-> trim(match.group)]
        ELSE [code |-> trim(StripFences(rawText))]

(* ------------------- what the clients and the backend send ------------- *)
\* req.query.query: absent, empty, or a prompt
Queries ==
    {[present |-> FALSE, value |-> <<>>],
     [present |-> TRUE, value |-> <<>>],
     [present |-> TRUE, value |-> <<"h", "i">>]}

\* variant: only an absent parameter is rejected, an empty one passes
Falsy_AbsentOnly(q) == ~q.present

\* !query
Falsy(q) == ~q.present \/ q.value = <<>>

\* messages of the errors a send can reject with
ErrorMessages ==
    {<<"4", "2", "9">>,
     <<"Q", "u", "o", "t", "a">>,
     <<"5", "0", "3">>,
     <<"O", "v", "e", "r", "l", "o", "a", "d", "e", "d">>,
     <<"4", "2", "9", " ", "5", "0", "3">>,
     <<"o", "v", "e", "r", "l", "o", "a", "d", "e", "d">>,
     <<"b", "o", "o", "m">>,
     <<>>}

\* the thrown values: Error objects with a message, and one without
Errors ==
    {[isNull |-> FALSE, hasMessage |-> TRUE, message |-> m] : m \in ErrorMessages}
        \cup {[isNull |-> FALSE, hasMessage |-> FALSE, message |-> <<>>]}

\* let lastError: any = null
Null == [isNull |-> TRUE, hasMessage |-> FALSE, message |-> <<>>]

\* response.text() of a successful send
RawTexts ==
    {<<" ", "h", "i", "\n">>,
     Fence \o <<"j", "s", "\n", "x", "\n">> \o Fence \o <<"t">>,
     <<"x">> \o Fence}

\* characters of the replies enumerated in full: the backquote, a word
\* character, the newline and the space
TextChars == {Backtick, "j", "\n", " "}

\* every reply of at most MaxTextLen of these characters
Texts == UNION {[1 .. n -> TextChars] : n \in 0 .. MaxTextLen}

(* ------------------------------ state ---------------------------------- *)
VARIABLES
    apiKeys,          \* the key pool, fixed at start-up
    currentKeyIndex,  \* the shared round-robin cursor
    pc,               \* per request: where its handler is suspended
    query,            \* per request: req.query.query
    attempt,          \* per request: the loop counter
    chatSession,      \* per request: the session it holds
    lastError,        \* per request: the error caught last
    response,         \* per request: what was written to res
    lastWarn,         \* per request: the last QUOTA_LIMIT / SERVICE_OVERLOADED record logged
    handedOut,        \* history: the keys getModel returned, in order
    sends,            \* history, per request: sendMessage calls made
    failures,         \* history, per request: sendMessage calls that rejected
    allocs,           \* history, per request: getModel calls made
    sentKey,          \* history, per request: key index of the latest send
    prevKey,          \* history, per request: key index of the send before it
    waited,           \* history, per request: the 1 s timer was set after the latest failure
    branch,           \* history, per request: what the inner catch did last ("retry", "throw")
    rawReply,         \* history, per request: the text its successful send returned
    rejected          \* history, per request: the error its latest failed send threw

vars == <<apiKeys, currentKeyIndex, pc, query, attempt, chatSession, lastError, response,
          lastWarn, handedOut, sends, failures, allocs, sentKey, prevKey, waited, branch,
          rawReply, rejected>>

\* (x + 1) % 0 is NaN in JavaScript
NaN == -1
\* no key index
NoKey == -2

\* born: which of the request's getModel calls made the session (history)
NoSession == [key |-> NoKey, used |-> 0, born |-> 0]
NoResponse == [status |-> 0, message |-> "", hasDetails |-> FALSE, details |-> <<>>,
               hasCode |-> FALSE, code |-> <<>>]
NoWarn == [type |-> "", keyIndex |-> NoKey]

NoQuery == [present |-> FALSE, value |-> <<>>]

Init ==
    /\ \E envKeys \in EnvChoices : apiKeys = ParseKeys(envKeys)
    /\ currentKeyIndex = 0
    /\ pc = [r \in Requests |-> "idle"]
    /\ query = [r \in Requests |-> NoQuery]
    /\ attempt = [r \in Requests |-> 0]
    /\ chatSession = [r \in Requests |-> NoSession]
    /\ lastError = [r \in Requests |-> Null]
    /\ response = [r \in Requests |-> NoResponse]
    /\ lastWarn = [r \in Requests |-> NoWarn]
    /\ handedOut = <<>>
    /\ sends = [r \in Requests |-> 0]
    /\ failures = [r \in Requests |-> 0]
    /\ allocs = [r \in Requests |-> 0]
    /\ sentKey = [r \in Requests |-> NoKey]
    /\ prevKey = [r \in Requests |-> NoKey]
    /\ waited = [r \in Requests |-> FALSE]
    /\ branch = [r \in Requests |-> "none"]
    /\ rawReply = [r \in Requests |-> <<>>]
    /\ rejected = [r \in Requests |-> Null]

(* ------------------------ getModel, sessions --------------------------- *)
\* variant: the cursor is incremented without the modulo
NextIndex_NoWrap(index) == IF Len(apiKeys) = 0 THEN NaN ELSE index + 1

\* variant: the cursor is clamped at the last key instead of wrapping
NextIndex_Clamp(index) ==
    IF Len(apiKeys) = 0 THEN NaN
    ELSE IF index + 1 < Len(apiKeys) THEN index + 1 ELSE index

\* currentKeyIndex = (currentKeyIndex + 1) % apiKeys.length
NextIndex(index) == IF Len(apiKeys) = 0 THEN NaN ELSE (index + 1) % Len(apiKeys)

\* getModel(): the index read, the cursor written, and whether a key was there
\* (apiKeys[index] is undefined, hence "No available API keys.", when it is not)
getModel ==
    LET index == currentKeyIndex
    IN  [index |-> index,
         cursor |-> NextIndex(index),
         hasKey |-> index + 1 \in DOMAIN apiKeys]

NoKeysMessage == <<"No available API keys.">>

\* res.status(...).json(...) bodies
BadRequest ==
    [NoResponse EXCEPT !.status = 400, !.message = "Missing 'query' parameter."]
ConfigError ==
    [NoResponse EXCEPT !.status = 500, !.message = "Server config error: No API keys."]
Ok(body) == [NoResponse EXCEPT !.status = 200, !.hasCode = TRUE, !.code = body.code]
\* variant: the outer catch logs the error and writes nothing to res
InternalError_Unanswered(hasMessage, message) == NoResponse

\* the outer catch: details is criticalError.message, dropped by JSON when undefined
InternalError(hasMessage, message) ==
    [NoResponse EXCEPT !.status = 500, !.message = "Internal Server Error",
                       !.hasDetails = hasMessage, !.details = message]

\* decimal digits of a natural number, as template strings print it
RECURSIVE Digits(_)
Digits(n) ==
    LET d == <<"0", "1", "2", "3", "4", "5", "6", "7", "8", "9">>
    IN  IF n < 10 THEN <<d[n + 1]>> ELSE Digits(n \div 10) \o <<d[(n % 10) + 1]>>

\* `Failed after ${MAX_RETRIES} attempts. Last error: ${lastError ? lastError.message : 'Unknown'}`
ExhaustedMessage(maxRetries, err) ==
    <<"Failed after ">> \o Digits(maxRetries) \o <<" attempts. Last error: ">>
        \o (IF err.isNull THEN <<"Unknown">>
            ELSE IF err.hasMessage THEN err.message ELSE <<"undefined">>)

\* variant: the session the request already holds is kept and sent on again
CreateChatSession_Reuse(r, suspended) ==
    LET model == getModel
    IN  /\ currentKeyIndex' = model.cursor
        /\ allocs' = [allocs EXCEPT ![r] = @ + 1]
        /\ handedOut' = Append(handedOut, apiKeys[model.index + 1])
        /\ chatSession' = [chatSession EXCEPT ![r] =
               IF @ = NoSession
               THEN [key |-> model.index, used |-> 0, born |-> allocs[r] + 1]
               ELSE @]
        /\ pc' = [pc EXCEPT ![r] = suspended]
        /\ response' = response

\* createChatSession() called by request r, which then awaits it at `suspended`.
\* getModel runs synchronously inside it; if getModel throws, the rejection
\* reaches the handler's outer catch.
CreateChatSession(r, suspended) ==
    LET model == getModel
    IN  /\ currentKeyIndex' = model.cursor
        /\ allocs' = [allocs EXCEPT ![r] = @ + 1]
        /\ IF model.hasKey
           THEN /\ handedOut' = Append(handedOut, apiKeys[model.index + 1])
                /\ chatSession' = [chatSession EXCEPT ![r] =
                       [key |-> model.index, used |-> 0, born |-> allocs[r] + 1]]
                /\ pc' = [pc EXCEPT ![r] = suspended]
                /\ response' = response
           ELSE /\ handedOut' = handedOut
                /\ chatSession' = chatSession
                /\ pc' = [pc EXCEPT ![r] = "done"]
                /\ response' = [response EXCEPT ![r] = InternalError(TRUE, NoKeysMessage)]

(* ------------------------------ GET / ---------------------------------- *)
\* variant: the ceiling is one attempt too high
MAX_RETRIES_OffByOne == Len(apiKeys) * 2 + 1

\* const MAX_RETRIES = apiKeys.length * 2
MAX_RETRIES == Len(apiKeys) * 2

\* the loop test with the counter at a, then the body up to sendMessage
LoopStep(r, a) ==
    /\ attempt' = [attempt EXCEPT ![r] = a]
    /\ IF a < MAX_RETRIES
       THEN /\ pc' = [pc EXCEPT ![r] = "sending"]
            /\ sends' = [sends EXCEPT ![r] = @ + 1]
            /\ chatSession' = [chatSession EXCEPT ![r].used = @ + 1]
            /\ prevKey' = [prevKey EXCEPT ![r] = sentKey[r]]
            /\ sentKey' = [sentKey EXCEPT ![r] = chatSession[r].key]
            /\ response' = response
       ELSE /\ pc' = [pc EXCEPT ![r] = "done"]
            /\ response' = [response EXCEPT ![r] =
                   InternalError(TRUE, ExhaustedMessage(MAX_RETRIES, lastError[r]))]
            /\ UNCHANGED <<sends, chatSession, prevKey, sentKey>>

\* variant: the handler does not test the pool
NoKeysConfigured_Untested == FALSE

\* apiKeys.length === 0
NoKeysConfigured == Len(apiKeys) = 0

\* the handler from its entry to its first await (or to its early return)
Request(r, q) ==
    /\ pc[r] = "idle"
    /\ query' = [query EXCEPT ![r] = q]
    /\ IF Falsy(q)
       THEN /\ response' = [response EXCEPT ![r] = BadRequest]
            /\ pc' = [pc EXCEPT ![r] = "done"]
            /\ UNCHANGED <<currentKeyIndex, allocs, handedOut, chatSession>>
       ELSE IF NoKeysConfigured
       THEN /\ response' = [response EXCEPT ![r] = ConfigError]
            /\ pc' = [pc EXCEPT ![r] = "done"]
            /\ UNCHANGED <<currentKeyIndex, allocs, handedOut, chatSession>>
       ELSE CreateChatSession(r, "await131")
    /\ UNCHANGED <<apiKeys, attempt, lastError, lastWarn, sends, failures, sentKey, prevKey,
                   waited, branch, rawReply, rejected>>

\* resumes after `await createChatSession()` of line 131: lastError = null,
\* attempt = 0, first loop test, sendMessage
EnterLoop(r) ==
    /\ pc[r] = "await131"
    /\ LoopStep(r, 0)
    /\ UNCHANGED <<apiKeys, currentKeyIndex, query, lastError, lastWarn, handedOut, allocs,
                   failures, waited, branch, rawReply, rejected>>

\* sendMessage resolved with rawText: format, res.json, return
SendSucceeds(r, rawText) ==
    /\ pc[r] = "sending"
    /\ response' = [response EXCEPT ![r] = Ok(formatResponse(rawText))]
    /\ pc' = [pc EXCEPT ![r] = "done"]
    /\ rawReply' = [rawReply EXCEPT ![r] = rawText]
    /\ UNCHANGED <<apiKeys, currentKeyIndex, query, attempt, chatSession, lastError, lastWarn,
                   handedOut, sends, failures, allocs, sentKey, prevKey, waited, branch,
                   rejected>>

\* const errorMsg = err.message || ""
ErrorMsg(err) == IF err.hasMessage THEN err.message ELSE <<>>
\* variant: "quota" is looked for without lower-casing the message
isQuotaError_CaseSensitive(errorMsg) ==
    includes(errorMsg, <<"4", "2", "9">>)
        \/ includes(errorMsg, <<"q", "u", "o", "t", "a">>)
\* variant: the test is errorMsg.includes(''), true of every message
isQuotaError_Always(errorMsg) == includes(errorMsg, <<>>)

isQuotaError(errorMsg) ==
    includes(errorMsg, <<"4", "2", "9">>)
        \/ includes(toLowerCase(errorMsg), <<"q", "u", "o", "t", "a">>)
\* variant: only the status code is looked for
isServiceOverloaded_Only503(errorMsg) == includes(errorMsg, <<"5", "0", "3">>)

isServiceOverloaded(errorMsg) ==
    includes(errorMsg, <<"5", "0", "3">>)
        \/ includes(errorMsg, <<"O", "v", "e", "r", "l", "o", "a", "d", "e", "d">>)

\* the key index the warning reports as "the key we JUST used"
usedKeyIndex == (currentKeyIndex - 1 + Len(apiKeys)) % Len(apiKeys)

\* variant: only the first error is kept (lastError = lastError || err)
RecordError_KeepFirst(old, err) == IF old.isNull THEN err ELSE old

\* lastError = err
RecordError(old, err) == err

\* sendMessage rejected with err: the inner catch up to its await, or its throw
\* into the outer catch
SendFails(r, err) ==
    /\ pc[r] = "sending"
    /\ lastError' = [lastError EXCEPT ![r] = RecordError(@, err)]
    /\ rejected' = [rejected EXCEPT ![r] = err]
    /\ failures' = [failures EXCEPT ![r] = @ + 1]
    /\ LET errorMsg == ErrorMsg(err)
       IN  IF isQuotaError(errorMsg) \/ isServiceOverloaded(errorMsg)
           THEN /\ branch' = [branch EXCEPT ![r] = "retry"]
                /\ lastWarn' = [lastWarn EXCEPT ![r] =
                       [type |-> IF isQuotaError(errorMsg) THEN "QUOTA_LIMIT"
                                 ELSE "SERVICE_OVERLOADED",
                        keyIndex |-> usedKeyIndex]]
                /\ IF isServiceOverloaded(errorMsg)
                   THEN /\ waited' = [waited EXCEPT ![r] = TRUE]
                        /\ pc' = [pc EXCEPT ![r] = "backoff"]
                        /\ UNCHANGED <<currentKeyIndex, allocs, handedOut,
                                       chatSession, response>>
                   ELSE /\ waited' = [waited EXCEPT ![r] = FALSE]
                        /\ CreateChatSession(r, "await175")
           ELSE /\ branch' = [branch EXCEPT ![r] = "throw"]
                /\ waited' = [waited EXCEPT ![r] = FALSE]
                /\ pc' = [pc EXCEPT ![r] = "done"]
                /\ response' = [response EXCEPT ![r] =
                       InternalError(err.hasMessage, err.message)]
                /\ UNCHANGED <<lastWarn, currentKeyIndex, allocs, handedOut,
                               chatSession>>
    /\ UNCHANGED <<apiKeys, query, attempt, sends, sentKey, prevKey, rawReply>>

\* the 1000 ms timer fires: chatSession = await createChatSession()
TimerFires(r) ==
    /\ pc[r] = "backoff"
    /\ CreateChatSession(r, "await175")
    /\ UNCHANGED <<apiKeys, query, attempt, lastError, lastWarn, sends, failures, sentKey,
                   prevKey, waited, branch, rawReply, rejected>>

\* resumes after `await createChatSession()` of line 175: continue, attempt++,
\* loop test, then sendMessage or the throw after the loop
Continue(r) ==
    /\ pc[r] = "await175"
    /\ LoopStep(r, attempt[r] + 1)
    /\ UNCHANGED <<apiKeys, currentKeyIndex, query, lastError, lastWarn, handedOut, allocs,
                   failures, waited, branch, rawReply, rejected>>

\* outcomes of a send that stand for the classes the handler tells apart:
\* quota only, overloaded only, both, neither
CommonErrors ==
    {e \in Errors : e.message \in {<<"4", "2", "9">>, <<"5", "0", "3">>,
                                   <<"4", "2", "9", " ", "5", "0", "3">>,
                                   <<"b", "o", "o", "m">>}}
CommonTexts == {t \in RawTexts : Len(t) = 12}

\* concurrent clients
Next ==
    \/ \E r \in Requests, q \in Queries : Request(r, q)
    \/ \E r \in Requests : EnterLoop(r)
    \/ \E r \in Requests, rawText \in CommonTexts : SendSucceeds(r, rawText)
    \/ \E r \in Requests, err \in CommonErrors : SendFails(r, err)
    \/ \E r \in Requests : TimerFires(r)
    \/ \E r \in Requests : Continue(r)

Spec == Init /\ [][Next]_vars

\* one client, every outcome of the catalogue
NextOne ==
    \/ \E q \in Queries : Request(1, q)
    \/ EnterLoop(1)
    \/ \E rawText \in RawTexts : SendSucceeds(1, rawText)
    \/ \E err \in Errors : SendFails(1, err)
    \/ TimerFires(1)
    \/ Continue(1)

SpecOne == Init /\ [][NextOne]_vars

\* The event loop resumes every settled await and fires every timer, and every
\* send is taken to settle (resolve or reject) eventually.
SendSettles(r) ==
    \/ \E err \in CommonErrors : SendFails(r, err)
    \/ \E rawText \in CommonTexts : SendSucceeds(r, rawText)

Fairness ==
    \A r \in Requests :
        /\ WF_vars(EnterLoop(r))
        /\ WF_vars(Continue(r))
        /\ WF_vars(TimerFires(r))
        /\ WF_vars(SendSettles(r))

SpecLive == Init /\ [][Next]_vars /\ Fairness

\* sendMessage resolved with any of the enumerated texts
SendReplies(r) ==
    /\ pc[r] = "sending"
    /\ \E rawText \in Texts : SendSucceeds(r, rawText)

\* one client, one key, every reply text of up to MaxTextLen characters
NextText ==
    \/ \E q \in Queries : Request(1, q)
    \/ EnterLoop(1)
    \/ SendReplies(1)

InitText == Init /\ Len(apiKeys) = 1

SpecText == InitText /\ [][NextText]_vars

(* ===================== properties of the gateway ======================= *)
N == Len(apiKeys)

\* what an error message says, read off the message itself
HasText(m, w) == \E i \in 1 .. Len(m) : i + Len(w) - 1 <= Len(m) /\ SubSeq(m, i, i + Len(w) - 1) = w
QuotaLetters == <<{"q", "Q"}, {"u", "U"}, {"o", "O"}, {"t", "T"}, {"a", "A"}>>
SaysQuota(m) ==
    \/ HasText(m, <<"4", "2", "9">>)
    \/ \E i \in 1 .. Len(m) :
           /\ i + 4 <= Len(m)
           /\ \A k \in 1 .. 5 : m[i + k - 1] \in QuotaLetters[k]
SaysOverloaded(m) ==
    \/ HasText(m, <<"5", "0", "3">>)
    \/ HasText(m, <<"O", "v", "e", "r", "l", "o", "a", "d", "e", "d">>)
MessageOf(e) == IF e.hasMessage THEN e.message ELSE <<>>
Retryable(e) == SaysQuota(MessageOf(e)) \/ SaysOverloaded(MessageOf(e))
Failed(r) == ~lastError[r].isNull
IsInternalError(resp) == resp.status = 500 /\ resp.message = "Internal Server Error"

\* C1: no request makes more than 2N sends; a request served alone sends on
\* consecutive keys of the pool (wrapping); and a request that ended without a
\* success after a retryable failure made exactly 2N sends and answered 500.
C1_TwoCyclesThenFail ==
    \A r \in Requests :
        /\ sends[r] <= 2 * N
        /\ sends[r] >= 2 => sentKey[r] = (prevKey[r] + 1) % N
        /\ (pc[r] = "done" /\ Failed(r) /\ Retryable(lastError[r])
                /\ response[r].status # 200)
             => (sends[r] = 2 * N /\ failures[r] = 2 * N /\ IsInternalError(response[r]))
C1_Witness ==
    \E r \in Requests :
        /\ N = 2 /\ pc[r] = "done" /\ sends[r] = 4 /\ failures[r] = 4
        /\ sentKey[r] = 1 /\ prevKey[r] = 0
        /\ IsInternalError(response[r])

\* C2: a finished request has made as many getModel calls as sends.
C2_OneAllocationPerSend ==
    \A r \in Requests : pc[r] = "done" => allocs[r] = sends[r]

\* C3: with two or more keys, a retry never sends on the credential of the
\* attempt that just failed.
C3_RetryOnOtherCredential ==
    \A r \in Requests :
        (N >= 2 /\ sends[r] >= 2) => apiKeys[sentKey[r] + 1] # apiKeys[prevKey[r] + 1]

\* C4: getModel hands the keys out in pool order, cyclically: each key is
\* followed by its successor in the pool, any N consecutive keys are pairwise
\* different, and the (N+1)-th repeats the first.
C4_RoundRobin ==
    /\ \A i \in 1 .. Len(handedOut) - 1 :
           \E j \in 1 .. N : handedOut[i] = apiKeys[j] /\ handedOut[i + 1] = apiKeys[(j % N) + 1]
    /\ \A i \in 1 .. Len(handedOut) :
           /\ \E j \in 1 .. N : handedOut[i] = apiKeys[j]
           /\ \A a, b \in 0 .. N - 1 :
                  (a < b /\ i + b <= Len(handedOut)) => handedOut[i + a] # handedOut[i + b]
           /\ i + N <= Len(handedOut) => handedOut[i + N] = handedOut[i]
C4_Witness == N = 2 /\ Len(handedOut) >= 4 /\ handedOut[2] = apiKeys[2]

\* C5: after a failure that is neither quota nor overload the request is over:
\* it answered 500, the failed send was its last, it made no getModel call for
\* a retry and set no timer; on the first attempt that is one send, one key.
C5_FatalAborts ==
    \A r \in Requests :
        (Failed(r) /\ ~Retryable(lastError[r])) =>
            /\ pc[r] = "done"
            /\ IsInternalError(response[r])
            /\ sends[r] = failures[r]
            /\ allocs[r] = sends[r]
            /\ sends[r] = attempt[r] + 1
            /\ ~waited[r]
            /\ attempt[r] = 0 => (sends[r] = 1 /\ allocs[r] = 1)
C5_Witness ==
    \E r \in Requests :
        /\ Failed(r) /\ ~Retryable(lastError[r])
        /\ attempt[r] = 0 /\ sends[r] = 1 /\ allocs[r] = 1 /\ pc[r] = "done"

\* the code each modelled reply text is to be normalised to
ExpectedCode(rawText) ==
    CASE rawText = <<" ", "h", "i", "\n">> -> <<"h", "i">>
      [] rawText = Fence \o <<"j", "s", "\n", "x", "\n">> \o Fence \o <<"t">> -> <<"x">>
      [] rawText = <<"x">> \o Fence -> <<"x">>

\* C6: a request answered 200 carries the normalised text of the send that
\* succeeded, which was its last send and its k-th after k-1 retryable
\* failures (k <= 2N), with one getModel call per send and none after.
C6_SuccessEndsTheLoop ==
    \A r \in Requests :
        response[r].status = 200 =>
            /\ pc[r] = "done"
            /\ response[r].hasCode /\ response[r].code = ExpectedCode(rawReply[r])
            /\ ~response[r].hasDetails /\ response[r].message = ""
            /\ sends[r] = failures[r] + 1
            /\ sends[r] = attempt[r] + 1
            /\ sends[r] <= 2 * N
            /\ allocs[r] = sends[r]
            /\ failures[r] > 0 => (Failed(r) /\ Retryable(lastError[r]))
C6_Witness ==
    \E r \in Requests :
        /\ response[r].status = 200 /\ sends[r] = 3 /\ failures[r] = 2
        /\ rawReply[r] = Fence \o <<"j", "s", "\n", "x", "\n">> \o Fence \o <<"t">>
        /\ response[r].code = <<"x">>

\* C7: the inner catch takes its retry branch exactly for the messages that
\* say quota or overload, and throws for every other one; after the retry
\* branch the request goes on to another send unless 2N sends were made.
C7_RetryIffQuotaOrOverload ==
    \A r \in Requests :
        Failed(r) =>
            /\ branch[r] = "retry" <=> Retryable(lastError[r])
            /\ branch[r] = "throw" <=> ~Retryable(lastError[r])
            /\ branch[r] = "throw" => (pc[r] = "done" /\ sends[r] = failures[r])
            /\ (branch[r] = "retry" /\ failures[r] < 2 * N) =>
                   \/ pc[r] \in {"backoff", "await175"}
                   \/ sends[r] > failures[r]
C7_Witness ==
    \E r \in Requests :
        /\ Failed(r) /\ lastError[r].message = <<"Q", "u", "o", "t", "a">>
        /\ branch[r] = "retry" /\ pc[r] = "sending" /\ sends[r] = failures[r] + 1

\* C8 as stated: the timer is set after a failure exactly when the failure is
\* classified ServiceOverloaded (overload and not quota) and a next attempt
\* follows.
C8_WaitOnlyForOverloadedClass ==
    \A r \in Requests :
        Failed(r) =>
            (waited[r] <=> (/\ SaysOverloaded(MessageOf(lastError[r]))
                            /\ ~SaysQuota(MessageOf(lastError[r]))
                            /\ failures[r] < 2 * N))

\* C8 as amended: the timer is set after a failure exactly when its message
\* says overload ("503" or "Overloaded"), whether or not it also says quota
\* and whether or not another attempt follows.
C8_WaitIffMessageSaysOverload ==
    \A r \in Requests :
        Failed(r) =>
            /\ waited[r] <=> SaysOverloaded(MessageOf(lastError[r]))
            /\ pc[r] = "backoff" => waited[r]
C8_Witness ==
    \E r \in Requests :
        /\ Failed(r) /\ lastError[r].message = <<"4", "2", "9", " ", "5", "0", "3">>
        /\ waited[r] /\ pc[r] = "backoff" /\ failures[r] = 2 * N
        /\ lastWarn[r].type = "QUOTA_LIMIT"

\* C9: a request without a query, or with an empty one, is answered 400
\* "Missing 'query' parameter." and gets no session and no send.
C9_MissingQueryRejected ==
    \A r \in Requests :
        (pc[r] # "idle" /\ (~query[r].present \/ Len(query[r].value) = 0)) =>
            /\ pc[r] = "done"
            /\ response[r].status = 400
            /\ response[r].message = "Missing 'query' parameter."
            /\ ~response[r].hasCode /\ ~response[r].hasDetails
            /\ allocs[r] = 0 /\ sends[r] = 0 /\ chatSession[r] = NoSession
C9_Witness ==
    \E r \in Requests :
        /\ pc[r] = "done" /\ query[r].present /\ query[r].value = <<>>
        /\ response[r].status = 400 /\ N > 0

\* C10 as stated: with no key configured every request is answered 500
\* "Server config error: No API keys." and getModel is never run.
C10_EmptyPoolAlways500 ==
    N = 0 =>
        /\ currentKeyIndex = 0 /\ handedOut = <<>>
        /\ \A r \in Requests :
               pc[r] # "idle" =>
                   /\ pc[r] = "done"
                   /\ response[r].status = 500
                   /\ response[r].message = "Server config error: No API keys."
                   /\ allocs[r] = 0 /\ sends[r] = 0

\* C10 as amended: with no key configured every request that carries a
\* non-empty query is answered 500 "Server config error: No API keys." (one
\* without a query is answered 400 first), and getModel is never run.
C10_EmptyPoolConfigError ==
    N = 0 =>
        /\ currentKeyIndex = 0 /\ handedOut = <<>>
        /\ \A r \in Requests :
               pc[r] # "idle" =>
                   /\ pc[r] = "done"
                   /\ allocs[r] = 0 /\ sends[r] = 0 /\ failures[r] = 0
                   /\ IF query[r].present /\ query[r].value # <<>>
                      THEN /\ response[r].status = 500
                           /\ response[r].message = "Server config error: No API keys."
                           /\ ~response[r].hasDetails
                      ELSE response[r].status = 400
C10_Witness ==
    \E r \in Requests :
        /\ N = 0 /\ pc[r] = "done" /\ query[r].value = <<"h", "i">>
        /\ response[r].status = 500 /\ currentKeyIndex = 0

\* the text of a thrown value's message as a template string prints it
PrintedMessage(e) == IF e.hasMessage THEN e.message ELSE <<"undefined">>
Exhausted(r) ==
    pc[r] = "done" /\ response[r].status # 200 /\ branch[r] = "retry" /\ failures[r] = 2 * N

\* C11: after a fatal failure the answer is 500 "Internal Server Error" with
\* that failure's message as details; after 2N retryable failures it is 500
\* "Internal Server Error" with details ending in the message of the failure
\* thrown last.
C11_DetailsCarryLastFailure ==
    \A r \in Requests :
        /\ (pc[r] = "done" /\ branch[r] = "throw") =>
               /\ IsInternalError(response[r])
               /\ response[r].hasDetails = rejected[r].hasMessage
               /\ rejected[r].hasMessage => response[r].details = rejected[r].message
        /\ Exhausted(r) =>
               /\ IsInternalError(response[r])
               /\ response[r].hasDetails
               /\ \E k \in 1 .. Len(response[r].details) :
                      /\ response[r].details[1] = "Failed after "
                      /\ response[r].details[k] = " attempts. Last error: "
                      /\ SubSeq(response[r].details, k + 1, Len(response[r].details))
                             = PrintedMessage(rejected[r])
C11_Witness ==
    \E r \in Requests :
        /\ Exhausted(r) /\ N = 2
        /\ rejected[r].message = <<"5", "0", "3">>
        /\ response[r].details =
               <<"Failed after ", "4", " attempts. Last error: ", "5", "0", "3">>

\* the JSON bodies the endpoint documents
WellFormed(resp) ==
    \/ resp.status = 200 /\ resp.hasCode /\ ~resp.hasDetails /\ resp.message = ""
    \/ /\ resp.status = 400 /\ resp.message = "Missing 'query' parameter."
       /\ ~resp.hasCode /\ ~resp.hasDetails
    \/ /\ resp.status = 500 /\ resp.message = "Server config error: No API keys."
       /\ ~resp.hasCode /\ ~resp.hasDetails
    \/ resp.status = 500 /\ resp.message = "Internal Server Error" /\ ~resp.hasCode

\* C12: every request that arrived is eventually answered, given that every
\* send settles; nothing is written to res before the handler ends, what is
\* written is one of the documented JSON bodies, and it is never rewritten.
C12_EveryRequestAnsweredOnce ==
    /\ \A r \in Requests : (pc[r] # "idle") ~> (pc[r] = "done")
    /\ [](\A r \in Requests :
              IF pc[r] = "done" THEN WellFormed(response[r])
              ELSE response[r] = NoResponse)
    /\ [][\A r \in Requests : pc[r] = "done" => response'[r] = response[r]]_vars
C12_Witness ==
    \E r, q \in Requests :
        /\ r # q /\ pc[r] = "done" /\ pc[q] = "done"
        /\ Exhausted(r) /\ response[r].status = 500 /\ response[r].hasDetails
        /\ response[q].status = 200 /\ failures[q] > 0

\* the reference normalisation: with a fence followed by a later fence, the
\* text between the first fence (its word-character tag and one newline
\* skipped) and the next fence, trimmed; otherwise the text with every fence
\* removed, trimmed
FirstFence(s) == IndexFrom(s, Fence, 1)
HasBlock(s) == FirstFence(s) # 0 /\ IndexFrom(s, Fence, FirstFence(s) + 3) # 0
Interior(s) ==
    LET tagEnd == SkipWord(s, FirstFence(s) + 3)
        from == IF tagEnd <= Len(s) /\ s[tagEnd] = "\n" THEN tagEnd + 1 ELSE tagEnd
    IN  Slice(s, from, IndexFrom(s, Fence, from) - 1)
Reference(s) == IF HasBlock(s) THEN trim(Interior(s)) ELSE trim(StripFences(s))
Answered(r) == pc[r] = "done" /\ response[r].status = 200

\* C13: the code of every 200 answer is the reference normalisation of the
\* text the backend returned.
C13_EqualsReference ==
    \A r \in Requests : Answered(r) => response[r].code = Reference(rawReply[r])

\* s without its backticks, and the number of backticks in s
RECURSIVE NoTicks(_)
NoTicks(s) ==
    IF s = <<>> THEN <<>>
    ELSE (IF Head(s) = Backtick THEN <<>> ELSE <<Head(s)>>) \o NoTicks(Tail(s))
Ticks(s) == Cardinality({i \in 1 .. Len(s) : s[i] = Backtick})
Stray(r) ==
    Answered(r) /\ Ticks(rawReply[r]) > 0 /\ ~HasBlock(rawReply[r])

C15_IdempotentOnFenceFree ==
    \A r \in Requests :
        (Answered(r) /\ ~includes(rawReply[r], Fence)) =>
            /\ formatResponse(response[r].code) = [code |-> response[r].code]
            /\ formatResponse(formatResponse(rawReply[r]).code) = formatResponse(rawReply[r])
C15_Witness ==
    \E r \in Requests :
        /\ Answered(r) /\ ~includes(rawReply[r], Fence)
        /\ Ticks(rawReply[r]) > 0
        /\ Len(response[r].code) > 0
        /\ Len(response[r].code) + 2 < Len(rawReply[r])

\* C16: with a non-empty pool the cursor is always an index of the pool, and
\* no step changes the pool.
C16_CursorValidPoolFixed ==
    /\ [](N >= 1 => currentKeyIndex \in 0 .. N - 1)
    /\ [][apiKeys' = apiKeys]_vars
C16_Witness ==
    /\ N = 2 /\ currentKeyIndex = 0 /\ Len(handedOut) = 2
    /\ \E r, q \in Requests : r # q /\ allocs[r] = 1 /\ allocs[q] = 1

\* C17: no session is sent on twice; the session a send goes to was made by
\* the request's latest getModel call, which for a retry came after the
\* failure before it, and the send uses the key that call returned.
C17_FreshSessionPerAttempt ==
    /\ [](\A r \in Requests :
              /\ chatSession[r].used <= 1
              /\ pc[r] = "sending" =>
                     /\ chatSession[r].used = 1
                     /\ chatSession[r].born = sends[r]
                     /\ chatSession[r].born = allocs[r]
                     /\ failures[r] = sends[r] - 1
                     /\ sentKey[r] = chatSession[r].key)
    /\ [][\A r \in Requests :
              chatSession'[r].born # chatSession[r].born =>
                  /\ chatSession'[r].used = 0
                  /\ chatSession'[r].born = failures'[r] + 1
                  /\ chatSession'[r].key = currentKeyIndex
                  /\ handedOut' = Append(handedOut, apiKeys[chatSession'[r].key + 1])]_vars
C17_Witness ==
    \E r \in Requests :
        /\ pc[r] = "sending" /\ sends[r] = 3 /\ failures[r] = 2
        /\ chatSession[r].born = 3 /\ chatSession[r].used = 1 /\ waited[r]

\* C18: the key index of the warning logged for a retryable failure is the
\* index of the key the failed send used.
C18_LoggedKeyIsUsedKey ==
    \A r \in Requests :
        (Failed(r) /\ branch[r] = "retry" /\ sends[r] = failures[r])
            => lastWarn[r].keyIndex = sentKey[r]

\* C19: the k-th key handed out process-wide is the key at index (k-1) mod N,
\* the cursor is the number of allocations mod N, every getModel call of
\* every request is counted in that number, and with two or more keys no
\* index is handed out twice in a row.
RECURSIVE SumAllocs(_)
SumAllocs(rs) ==
    IF rs = {} THEN 0
    ELSE LET r == CHOOSE x \in rs : TRUE IN allocs[r] + SumAllocs(rs \ {r})
C19_AllocationAtomic ==
    N >= 1 =>
        /\ \A k \in 1 .. Len(handedOut) : handedOut[k] = apiKeys[((k - 1) % N) + 1]
        /\ currentKeyIndex = Len(handedOut) % N
        /\ Len(handedOut) = SumAllocs(Requests)
        /\ N >= 2 => \A k \in 1 .. Len(handedOut) - 1 : handedOut[k] # handedOut[k + 1]
C19_Witness ==
    /\ N = 2 /\ Len(handedOut) = 5 /\ currentKeyIndex = 1
    /\ \E r, q \in Requests :
           /\ r # q /\ allocs[r] = 3 /\ allocs[q] = 2
           /\ pc[r] = "sending" /\ pc[q] = "backoff"

\* C20: a request answered without reaching the loop (400 or 500 config error)
\* changes neither the cursor nor the keys handed out, nor any other
\* request's session.
C20_EarlyReturnLeavesCursor ==
    [][\A r \in Requests :
          (pc[r] = "idle" /\ pc'[r] = "done") =>
              /\ response'[r] \in {BadRequest, ConfigError}
              /\ currentKeyIndex' = currentKeyIndex
              /\ handedOut' = handedOut
              /\ allocs' = allocs
              /\ chatSession' = chatSession]_vars
C20_Witness ==
    \E r, q \in Requests :
        /\ r # q /\ N = 2
        /\ pc[r] = "done" /\ response[r] = BadRequest /\ allocs[r] = 0
        /\ pc[q] = "sending" /\ currentKeyIndex = 1 /\ allocs[q] = 1

====
